---- MODULE Spec2Model ----
(***************************************************************************)
(* Model of src/src/client/netmon_dual.py: the per-interface staged health *)
(* check (check_iface and the helpers it calls), the aggregation and the   *)
(* tick loop of main(), the daily CSV log (append_row) and the upload      *)
(* (azure_upload) with its audit log.                                      *)
(*                                                                         *)
(* Text.  A Python str is modelled as a sequence of pieces; a piece is a   *)
(* TLA+ string standing for an indivisible run of characters (one digit,   *)
(* ".", "/", "time=", a word).  "" is << >>.  The output of a command is a *)
(* sequence of lines, a line is a sequence of whitespace-separated tokens, *)
(* and a token is a non-empty text.  Every value a result or a row holds   *)
(* is kept in its str() form, which is the form csv.DictWriter writes: an  *)
(* int n is kept as Str(n).  None is << >> where the code maps None to "". *)
(*                                                                         *)
(* Floats are integers counting millionths (7.23 is 7230000).              *)
(*                                                                         *)
(* Init of Spec is the state at the entry of main().  The module-level     *)
(* settings (lines 16-25) are taken as bound; as written, lines 22-25 read *)
(* a ConfigParser that was given no file, so the module cannot be          *)
(* imported: everything below is about the functions once it is.           *)
(***************************************************************************)
EXTENDS Integers, Sequences, FiniteSets, TLC

VARIABLES
    IFACES,         \* the configured ordered list of interface names (line 18)
    environ,        \* os.environ as azure_upload reads it
    pc,             \* position of main() in its loop
    tick,           \* number of the current tick
    today,          \* the calendar date of the system clock
    log_dir,        \* main's log_dir
    ts,             \* main's ts
    results,        \* main's results: sequence of <<iface, result>>, in insertion order
    overall_ok,     \* main's overall_ok
    preferred,      \* main's preferred
    row,            \* main's row: sequence of <<key, value>> in insertion order
    csv_path,       \* main's csv_path
    files,          \* the file system: path -> sequence of csv rows
    upload_log,     \* the lines of netmon_upload.log
    blobs,          \* the remote container: blob name -> content
    up_ret,         \* what azure_upload returned in this tick: << >> or <<[ok, msg]>>
    hist,           \* observations of the current tick: calls of append_row and of
                    \* azure_upload, audit lines written, whether the audit write
                    \* raised, and the length of netmon_upload.log when the tick began
    calls,          \* the paths append_row was called with, since main() began
    arg,            \* SpecIface: the call under evaluation, [iface, world]
    ret,            \* SpecIface: << >> before the call, <<result, commands run>>
                    \* after it;
                    \* SpecCsv: the records append_row was called with
    disk            \* SpecCsv: the log files as text, path -> what the file holds

vars == <<IFACES, environ, pc, tick, today, log_dir, ts, results, overall_ok,
          preferred, row, csv_path, files, upload_log, blobs, up_ret, hist,
          calls, arg, ret, disk>>

mainvars == <<IFACES, environ, pc, tick, today, log_dir, ts, results, overall_ok,
              preferred, row, csv_path, files, upload_log, blobs, up_ret, hist, calls>>

(***************************************************************************)
(* Text helpers: Python's str operations on the piece model.               *)
(***************************************************************************)
Digits == <<"0", "1", "2", "3", "4", "5", "6", "7", "8", "9">>

IsDigit(p) == \E i \in 1..10 : Digits[i] = p

DigitVal(p) == (CHOOSE i \in 1..10 : Digits[i] = p) - 1

\* str(n) for an int n >= 0
RECURSIVE Str(_)
Str(n) == IF n < 10 THEN <<Digits[n + 1]>>
          ELSE Str(n \div 10) \o <<Digits[(n % 10) + 1]>>

RECURSIVE DigitsVal(_)
DigitsVal(t) == IF t = << >> THEN 0
                ELSE DigitsVal(SubSeq(t, 1, Len(t) - 1)) * 10 + DigitVal(t[Len(t)])

AllDigits(t) == t # << >> /\ \A i \in 1..Len(t) : IsDigit(t[i])

\* int(s): [ok |-> FALSE] stands for ValueError
ParseInt(t) == IF AllDigits(t) THEN [ok |-> TRUE, v |-> DigitsVal(t)]
               ELSE [ok |-> FALSE, v |-> 0]

\* index of the first piece equal to p, 0 if there is none
IndexOf(t, p) == IF \E i \in 1..Len(t) : t[i] = p
                 THEN CHOOSE i \in 1..Len(t) : t[i] = p /\ \A j \in 1..(i - 1) : t[j] # p
                 ELSE 0

\* s.split(sep)[0]
BeforeFirst(t, sep) == IF IndexOf(t, sep) = 0 THEN t ELSE SubSeq(t, 1, IndexOf(t, sep) - 1)

\* s[s.index(sep) + len(sep):], for sep in s
AfterFirst(t, sep) == SubSeq(t, IndexOf(t, sep) + 1, Len(t))

Pow10(k) == CASE k = 0 -> 1 [] k = 1 -> 10 [] k = 2 -> 100 [] k = 3 -> 1000
              [] k = 4 -> 10000 [] k = 5 -> 100000 [] OTHER -> 1000000

\* float(s), in millionths; [ok |-> FALSE] stands for ValueError.  Literals
\* are digits with at most one "." and at most six fraction digits.
ParseFloat(t) ==
    LET dot  == IndexOf(t, ".")
        ip   == IF dot = 0 THEN t ELSE SubSeq(t, 1, dot - 1)
        fp   == IF dot = 0 THEN << >> ELSE SubSeq(t, dot + 1, Len(t))
        good == /\ t # << >>
                /\ \A i \in 1..Len(ip) : IsDigit(ip[i])
                /\ \A i \in 1..Len(fp) : IsDigit(fp[i])
                /\ Len(ip) + Len(fp) > 0
                /\ Len(fp) <= 6
    IN  IF good
        THEN [ok |-> TRUE, v |-> DigitsVal(ip) * 1000000 + DigitsVal(fp) * Pow10(6 - Len(fp))]
        ELSE [ok |-> FALSE, v |-> 0]

\* f"{x:.2f}" for x >= 0 in millionths: rounded to hundredths, two fraction
\* digits always written.  (A value exactly half way between two hundredths
\* is rounded by its binary representation in Python; up, here.)
Fmt2f(x) ==
    LET h == (x + 5000) \div 10000
    IN  Str(h \div 100) \o <<".">> \o <<Digits[((h % 100) \div 10) + 1], Digits[(h % 10) + 1]>>

\* int(b) for a bool b, as text
BoolStr(b) == IF b THEN Str(1) ELSE Str(0)

\* the tokens of all lines, in order: stdout.strip().split()
RECURSIVE Flatten(_)
Flatten(out) == IF out = << >> THEN << >> ELSE Head(out) \o Flatten(Tail(out))

(***************************************************************************)
(* run (lines 27-28): what a subprocess.run call can come back with.       *)
(* exc = TRUE is any exception (TimeoutExpired, FileNotFoundError, ...).   *)
(***************************************************************************)
Raised == [exc |-> TRUE, returncode |-> 0, stdout |-> << >>]

Exited(rc, out) == [exc |-> FALSE, returncode |-> rc, stdout |-> out]

W(s) == <<s>>   \* a one-piece token

(***************************************************************************)
(* iface_is_up (lines 54-62)                                               *)
(***************************************************************************)
\* "state UP" in stdout: a token ending in "state", one space, a token starting with "UP"
HasStateUP(out) ==
    \E l \in 1..Len(out) : \E i \in 1..(Len(out[l]) - 1) :
        /\ out[l][i][Len(out[l][i])] = "state"
        /\ out[l][i + 1][1] = "UP"

iface_is_up(p) ==
    IF p.exc THEN FALSE
    ELSE IF p.returncode # 0 THEN FALSE
    ELSE HasStateUP(p.stdout)

(***************************************************************************)
(* iface_ipv4 (lines 65-80)                                                *)
(***************************************************************************)
\* line.strip().startswith("inet ")
StartsWithInet(line) == Len(line) >= 2 /\ line[1] = W("inet")

iface_ipv4(p) ==
    IF p.exc THEN << >>
    ELSE IF p.returncode # 0 THEN << >>
    ELSE IF \E l \in 1..Len(p.stdout) : StartsWithInet(p.stdout[l])
         THEN LET l == CHOOSE l \in 1..Len(p.stdout) :
                          /\ StartsWithInet(p.stdout[l])
                          /\ \A k \in 1..(l - 1) : ~StartsWithInet(p.stdout[k])
              IN  BeforeFirst(p.stdout[l][2], "/")
         ELSE << >>

(***************************************************************************)
(* gateway_for_iface (lines 83-98)                                         *)
(***************************************************************************)
gateway_for_iface(p) ==
    IF p.exc THEN << >>
    ELSE IF p.returncode # 0 THEN << >>
    ELSE LET parts == Flatten(p.stdout)
             Hit(i) == parts[i] = W("via") /\ i + 1 <= Len(parts)
         IN  IF \E i \in 1..Len(parts) : Hit(i)
             THEN parts[(CHOOSE i \in 1..Len(parts) :
                            Hit(i) /\ \A j \in 1..(i - 1) : ~Hit(j)) + 1]
             ELSE << >>

(***************************************************************************)
(* ping_via_iface (lines 101-121): [ok, rtt], rtt = << >> for None         *)
(***************************************************************************)
\* "time=" in line
HasTime(line) == \E i \in 1..Len(line) : IndexOf(line[i], "time=") # 0

\* line.split("time=")[1].split()[0]; << >> stands for the IndexError
RttStr(line) ==
    LET i    == CHOOSE i \in 1..Len(line) :
                   IndexOf(line[i], "time=") # 0
                   /\ \A j \in 1..(i - 1) : IndexOf(line[j], "time=") = 0
        rest == AfterFirst(line[i], "time=")
    IN  IF rest # << >> THEN BeforeFirst(rest, "time=")
        ELSE IF i < Len(line) THEN BeforeFirst(line[i + 1], "time=")
        ELSE << >>

\* a latency handed back with a failed ping
ping_via_iface_RttOnFail(p) ==
    IF p.exc THEN [ok |-> FALSE, rtt |-> << >>]
    ELSE IF p.returncode # 0 THEN [ok |-> FALSE, rtt |-> <<0>>]
    ELSE IF \E l \in 1..Len(p.stdout) : HasTime(p.stdout[l])
         THEN LET l == CHOOSE l \in 1..Len(p.stdout) :
                          HasTime(p.stdout[l]) /\ \A k \in 1..(l - 1) : ~HasTime(p.stdout[k])
                  f == ParseFloat(RttStr(p.stdout[l]))
              IN  [ok |-> TRUE, rtt |-> IF f.ok THEN <<f.v>> ELSE << >>]
         ELSE [ok |-> TRUE, rtt |-> << >>]

ping_via_iface(p) ==
    IF p.exc THEN [ok |-> FALSE, rtt |-> << >>]
    ELSE IF p.returncode # 0 THEN [ok |-> FALSE, rtt |-> << >>]
    ELSE IF \E l \in 1..Len(p.stdout) : HasTime(p.stdout[l])
         THEN LET l == CHOOSE l \in 1..Len(p.stdout) :
                          HasTime(p.stdout[l]) /\ \A k \in 1..(l - 1) : ~HasTime(p.stdout[k])
                  f == ParseFloat(RttStr(p.stdout[l]))
              IN  [ok |-> TRUE, rtt |-> IF f.ok THEN <<f.v>> ELSE << >>]
         ELSE [ok |-> TRUE, rtt |-> << >>]

(***************************************************************************)
(* curl_head_via_iface (lines 124-153): [ok, ms, code], << >> for None     *)
(***************************************************************************)
HeadFailed == [ok |-> FALSE, ms |-> << >>, code |-> << >>]

\* only a 2xx answer counts as reachable
curl_head_via_iface_Only2xx(p) ==
    IF p.exc THEN HeadFailed
    ELSE IF p.returncode # 0 THEN HeadFailed
    ELSE LET out == Flatten(p.stdout)
         IN  IF Len(out) # 2 THEN HeadFailed
             ELSE LET code == ParseInt(out[1])
                      t    == ParseFloat(out[2])
                  IN  IF ~code.ok \/ ~t.ok THEN HeadFailed
                      ELSE [ok   |-> 200 <= code.v /\ code.v < 300,
                            ms   |-> <<t.v * 1000>>,
                            code |-> <<code.v>>]

curl_head_via_iface(p) ==
    IF p.exc THEN HeadFailed
    ELSE IF p.returncode # 0 THEN HeadFailed
    ELSE LET out == Flatten(p.stdout)
         IN  IF Len(out) # 2 THEN HeadFailed
             ELSE LET code == ParseInt(out[1])
                      t    == ParseFloat(out[2])
                  IN  IF ~code.ok \/ ~t.ok THEN HeadFailed
                      ELSE [ok   |-> 200 <= code.v /\ code.v < 600,
                            ms   |-> <<t.v * 1000>>,
                            code |-> <<code.v>>]

(***************************************************************************)
(* curl_get_via_iface (lines 156-173): the body, stripped: the tokens of a *)
(* line with single spaces between them, the lines with "\n" between them. *)
(***************************************************************************)
RECURSIVE JoinTokens(_)
JoinTokens(toks) == IF toks = << >> THEN << >>
                    ELSE IF Len(toks) = 1 THEN toks[1]
                    ELSE toks[1] \o <<" ">> \o JoinTokens(Tail(toks))

RECURSIVE JoinLines(_)
JoinLines(out) == IF out = << >> THEN << >>
                  ELSE IF Len(out) = 1 THEN JoinTokens(out[1])
                  ELSE JoinTokens(out[1]) \o <<"\n">> \o JoinLines(Tail(out))

curl_get_via_iface(p) ==
    IF p.exc THEN << >>
    ELSE IF p.returncode # 0 THEN << >>
    ELSE JoinLines(p.stdout)

(***************************************************************************)
(* check_iface (lines 208-244).  w gives what each command comes back with *)
(* if it is run: link, addr, route, ping, head, get.                       *)
(***************************************************************************)
\* the commands check_iface can run, in the order of lines 212-229
Stages == <<"link", "addr", "route", "ping", "head", "get">>

\* every stage run, whatever the earlier stages gave
check_stages_NoShortCircuit(iface, w) ==
    LET png == ping_via_iface(w.ping)
        hd  == curl_head_via_iface(w.head)
    IN  [up |-> iface_is_up(w.link), ip4 |-> iface_ipv4(w.addr),
         gw |-> gateway_for_iface(w.route),
         local_ok |-> png.ok, gw_rtt |-> png.rtt,
         nos_ok |-> hd.ok, nos_ms |-> hd.ms, nos_code |-> hd.code,
         public_ip |-> curl_get_via_iface(w.get),
         iface_ok |-> png.ok /\ hd.ok,
         ran |-> Stages]

\* a ping that failed is tried a second time
check_stages_RetryPing(iface, w) ==
    LET up     == iface_is_up(w.link)
        ip4    == IF up THEN iface_ipv4(w.addr) ELSE << >>
        gw     == IF ip4 # << >> THEN gateway_for_iface(w.route) ELSE << >>
        png    == IF gw # << >> THEN ping_via_iface(w.ping)
                  ELSE [ok |-> FALSE, rtt |-> << >>]
        hd     == IF png.ok THEN curl_head_via_iface(w.head) ELSE HeadFailed
        public == IF png.ok /\ hd.ok THEN curl_get_via_iface(w.get) ELSE << >>
    IN  [up |-> up, ip4 |-> ip4, gw |-> gw,
         local_ok |-> png.ok, gw_rtt |-> png.rtt,
         nos_ok |-> hd.ok, nos_ms |-> hd.ms, nos_code |-> hd.code,
         public_ip |-> public,
         iface_ok |-> png.ok /\ hd.ok,
         ran |-> <<"link">> \o (IF up THEN <<"addr">> ELSE << >>)
                            \o (IF ip4 # << >> THEN <<"route">> ELSE << >>)
                            \o (IF gw # << >> THEN <<"ping">> ELSE << >>)
                            \o (IF gw # << >> /\ ~png.ok THEN <<"ping">> ELSE << >>)
                            \o (IF png.ok THEN <<"head">> ELSE << >>)
                            \o (IF png.ok /\ hd.ok THEN <<"get">> ELSE << >>)]

\* lines 212-231: the staged checks and iface_ok
check_stages(iface, w) ==
    LET up     == iface_is_up(w.link)
        ip4    == IF up THEN iface_ipv4(w.addr) ELSE << >>
        gw     == IF ip4 # << >> THEN gateway_for_iface(w.route) ELSE << >>
        png    == IF gw # << >> THEN ping_via_iface(w.ping)
                  ELSE [ok |-> FALSE, rtt |-> << >>]
        hd     == IF png.ok THEN curl_head_via_iface(w.head) ELSE HeadFailed
        public == IF png.ok /\ hd.ok THEN curl_get_via_iface(w.get) ELSE << >>
    IN  [up |-> up, ip4 |-> ip4, gw |-> gw,
         local_ok |-> png.ok, gw_rtt |-> png.rtt,
         nos_ok |-> hd.ok, nos_ms |-> hd.ms, nos_code |-> hd.code,
         public_ip |-> public,
         iface_ok |-> png.ok /\ hd.ok,
         ran |-> <<"link">> \o (IF up THEN <<"addr">> ELSE << >>)
                            \o (IF ip4 # << >> THEN <<"route">> ELSE << >>)
                            \o (IF gw # << >> THEN <<"ping">> ELSE << >>)
                            \o (IF png.ok THEN <<"head">> ELSE << >>)
                            \o (IF png.ok /\ hd.ok THEN <<"get">> ELSE << >>)]

\* lines 233-244: the returned dict
result_dict(s) ==
    [iface_up        |-> BoolStr(s.up),
     iface_ipv4      |-> s.ip4,
     gateway         |-> s.gw,
     local_ok        |-> BoolStr(s.local_ok),
     gateway_rtt_ms  |-> IF s.gw_rtt # << >> THEN Fmt2f(s.gw_rtt[1]) ELSE << >>,
     nos_ok          |-> BoolStr(s.nos_ok),
     nos_status      |-> IF s.nos_code # << >> THEN Str(s.nos_code[1]) ELSE << >>,
     nos_response_ms |-> IF s.nos_ms # << >> THEN Fmt2f(s.nos_ms[1]) ELSE << >>,
     public_ip       |-> s.public_ip,
     iface_ok        |-> BoolStr(s.iface_ok)]

\* healthy only with a public IP as well
check_iface_HealthyNeedsIp(iface, w) ==
    LET s == check_stages(iface, w)
    IN  result_dict([s EXCEPT !.iface_ok = @ /\ s.public_ip # << >>])

\* an exception of the link query leaves check_iface
check_iface_LinkRaises(iface, w) ==
    IF w.link.exc THEN [raised |-> <<"TimeoutExpired">>]
    ELSE result_dict(check_stages(iface, w))

check_iface(iface, w) == result_dict(check_stages(iface, w))

\* the keys of the returned dict, in insertion order
ResultKeys == <<"iface_up", "iface_ipv4", "gateway", "local_ok", "gateway_rtt_ms",
                "nos_ok", "nos_status", "nos_response_ms", "public_ip", "iface_ok">>

(***************************************************************************)
(* What the commands can come back with.                                   *)
(***************************************************************************)
LinkUp == Exited(0, << <<W("2:"), W("eth0:"), W("state"), W("UP")>> >>)

LinkDown == Exited(0, << <<W("2:"), W("eth0:"), W("state"), W("DOWN")>> >>)

AddrGood == Exited(0, << <<W("inet6"), <<"fe80::1", "/", "6", "4">> >>,
                         <<W("inet"), <<"192.168.1.23", "/", "2", "4">>, W("brd")>> >>)

RouteGood == Exited(0, << <<W("default"), W("via"), W("192.168.1.1"), W("dev")>> >>)

PingGood == Exited(0, << <<W("PING")>>,
                         <<W("64"), W("bytes"), <<"time=", "7", ".", "2", "3">>, W("ms")>> >>)

Head200 == Exited(0, << <<<<"2", "0", "0">>, <<"0", ".", "1", "2", "0", "0", "0", "0">> >> >>)

Head101 == Exited(0, << <<<<"1", "0", "1">>, <<"0", ".", "0", "5">> >> >>)

GetGood == Exited(0, << <<W("203.0.113.7")>> >>)

\* a body that is no address: <p> a,"b" and a second line
GetPage == Exited(0, << <<W("<p>"), <<"a", ",", "\"", "b", "\"">> >>, <<W("c")>> >>)

LinkOutcomes ==
    { Raised,
      Exited(1, << >>),
      LinkUp,
      LinkDown }

AddrOutcomes ==
    { Raised,
      Exited(1, << >>),
      Exited(0, << >>),
      AddrGood,
      Exited(0, << <<W("inet"), <<"/", "2", "4">> >> >>) }

RouteOutcomes ==
    { Raised,
      Exited(2, << >>),
      Exited(0, << >>),
      RouteGood,
      Exited(0, << <<W("default"), W("dev"), W("via")>> >>) }

PingOutcomes ==
    { Raised,
      Exited(1, << <<W("0"), W("received")>> >>),
      PingGood,
      Exited(0, << <<W("1"), W("received")>> >>),
      Exited(0, << <<W("64"), W("bytes"), <<"time=", "n/a">> >> >>),
      Exited(0, << <<W("bytes"), W("time="), <<"0", ".", "4", "5", "6">> >> >>) }

HeadOutcomes ==
    { Raised,
      Exited(28, << <<<<"0", "0", "0">>, <<"6", ".", "0", "0", "1">> >> >>),
      Head200,
      Exited(0, << <<<<"4", "0", "4">>, <<"0", ".", "0", "8", "5", "1", "2", "3">> >> >>),
      Head101,
      Exited(0, << <<<<"2", "0", "0">> >> >>),
      Exited(0, << <<W("abc"), <<"0", ".", "1">> >> >>) }

GetOutcomes ==
    { Raised,
      Exited(6, << >>),
      GetGood,
      GetPage,
      Exited(0, << >>) }

Worlds == [link : LinkOutcomes, addr : AddrOutcomes, route : RouteOutcomes,
           ping : PingOutcomes, head : HeadOutcomes, get : GetOutcomes]

(***************************************************************************)
(* Bounds                                                                  *)
(***************************************************************************)
MaxTicks == 2   \* ticks main() is followed through

MaxDay == 2     \* calendar dates the clock runs through

(***************************************************************************)
(* Settings (lines 16-20) and the process environment                      *)
(***************************************************************************)
\* IFACES as shipped (line 18), the same reordered, and another list
IfaceConfigs == { << <<"eth0">>, <<"wlan0">> >>,
                  << <<"wlan0">>, <<"eth0">> >>,
                  << <<"eth1">> >> }

IfaceNames == {<<"eth0">>, <<"wlan0">>}

\* the names bound at module level (lines 1-25 and the defs)
ModuleGlobals ==
    {"INTERVAL_SECONDS", "LOG_DIR", "IFACES", "PUBLIC_IP_URL", "inifileHandler",
     "URL2CHECK", "AZURE_CONTAINER", "AZURE_STORAGE_CONNECTION_STRING",
     "run", "ensure_log_dir", "log_path_for_today", "append_row", "iface_is_up",
     "iface_ipv4", "gateway_for_iface", "ping_via_iface", "curl_head_via_iface",
     "curl_get_via_iface", "azure_upload", "check_iface", "main"}

\* os.environ: the variables that are set, with their values
Environs ==
    { << >>,
      [v \in {"AZURE_CONTAINER"} |-> <<"netmon">>],
      [v \in {"AZURE_CONTAINER", "AZURE_STORAGE_SAS_TOKEN"} |->
          IF v = "AZURE_CONTAINER" THEN <<" ", "netmon">> ELSE <<"sv=1">>] }

\* os.getenv(name, default)
Getenv(env, name, default) == IF name \in DOMAIN env THEN env[name] ELSE default

\* s.strip(): leading and trailing " " pieces removed
RECURSIVE Strip(_)
Strip(t) == IF t = << >> THEN << >>
            ELSE IF t[1] = " " THEN Strip(Tail(t))
            ELSE IF t[Len(t)] = " " THEN Strip(SubSeq(t, 1, Len(t) - 1))
            ELSE t

\* str(b) for a bool b
PyBool(b) == IF b THEN <<"True">> ELSE <<"False">>

(***************************************************************************)
(* ensure_log_dir (lines 31-38), log_path_for_today (lines 41-42)          *)
(***************************************************************************)
ensure_log_dir(denied) == IF denied THEN <<"~", "/", "netmon_logs">>
                          ELSE <<".", "/", "log">>

\* date.isoformat() of day d of the model's month
IsoDate(d) == <<"2026-01-">> \o (IF d < 10 THEN <<"0">> ELSE << >>) \o Str(d)

log_path_for_today(dir, d) == dir \o <<"/">> \o <<"netmon_">> \o IsoDate(d) \o <<".csv">>

\* Path.name: what follows the last "/"
RECURSIVE PathName(_)
PathName(path) == IF IndexOf(path, "/") = 0 THEN path
                  ELSE PathName(AfterFirst(path, "/"))

\* datetime.now().isoformat(timespec="seconds"); the time of day of tick k is
\* written as k (ticks are INTERVAL_SECONDS apart)
now_iso(d, k) == IsoDate(d) \o <<"T">> \o Str(k)

(***************************************************************************)
(* append_row (lines 45-51).  A file is the sequence of the rows written   *)
(* to it, a row the sequence of its cells.                                 *)
(***************************************************************************)
Keys(r) == [i \in 1..Len(r) |-> r[i][1]]

Values(r) == [i \in 1..Len(r) |-> r[i][2]]

\* the header written again on every call
append_row_AlwaysHeader(fs, path, r) ==
    (path :> ((IF path \in DOMAIN fs THEN fs[path] ELSE << >>) \o <<Keys(r), Values(r)>>)) @@ fs

\* the file opened with "w" instead of "a"
append_row_Truncate(fs, path, r) ==
    (path :> (IF path \in DOMAIN fs THEN <<fs[path][1], Values(r)>>
              ELSE <<Keys(r), Values(r)>>)) @@ fs

append_row(fs, path, r) ==
    LET new_file == path \notin DOMAIN fs
    IN  IF new_file
        THEN (path :> <<Keys(r), Values(r)>>) @@ fs
        ELSE [fs EXCEPT ![path] = Append(@, Values(r))]

(***************************************************************************)
(* The csv text of lines 47-51: csv.DictWriter writes with the excel       *)
(* dialect (delimiter ",", quotechar '"', doubled quotes, minimal quoting, *)
(* "\r\n" after every record) to a file opened with newline="".  Reading   *)
(* back is csv.reader on the file opened the same way.  append_row above   *)
(* keeps a file as the rows a reader gets from it; append_row_csv keeps    *)
(* the text, and C12 relates the two.                                      *)
(***************************************************************************)
CsvEol == {"\r\n", "\n", "\r"}

\* every '"' of the cell doubled
RECURSIVE csv_double(_)
csv_double(cell) == IF cell = << >> THEN << >>
                    ELSE IF cell[1] = "\"" THEN <<"\"", "\"">> \o csv_double(Tail(cell))
                    ELSE <<cell[1]>> \o csv_double(Tail(cell))

\* a cell written as it is, never quoted
csv_field_NoQuote(cell) == cell

\* one field as the writer writes it (QUOTE_MINIMAL)
csv_field(cell) ==
    IF \E i \in 1..Len(cell) : cell[i] \in {",", "\""} \cup CsvEol
    THEN <<"\"">> \o csv_double(cell) \o <<"\"">>
    ELSE cell

RECURSIVE csv_join(_)
csv_join(cells) == IF cells = << >> THEN << >>
                   ELSE IF Len(cells) = 1 THEN csv_field(cells[1])
                   ELSE csv_field(cells[1]) \o <<",">> \o csv_join(Tail(cells))

\* writer.writerow(cells)
csv_writerow(cells) == csv_join(cells) \o <<"\r\n">>

\* csv.reader from piece i of the text t on, one field: the cell read, the
\* piece after it, and what ended it (a delimiter, a line end, the text)
RECURSIVE csv_parse_field(_, _, _, _)
csv_parse_field(t, i, mode, cell) ==
    IF i > Len(t) THEN [cell |-> cell, next |-> i, end |-> "eof"]
    ELSE LET c == t[i]
         IN  CASE mode = "start_field" ->
                    IF c \in CsvEol THEN [cell |-> << >>, next |-> i + 1, end |-> "record"]
                    ELSE IF c = "," THEN [cell |-> << >>, next |-> i + 1, end |-> "field"]
                    ELSE IF c = "\"" THEN csv_parse_field(t, i + 1, "in_quoted", << >>)
                    ELSE csv_parse_field(t, i + 1, "in_field", <<c>>)
               [] mode = "in_field" ->
                    IF c \in CsvEol THEN [cell |-> cell, next |-> i + 1, end |-> "record"]
                    ELSE IF c = "," THEN [cell |-> cell, next |-> i + 1, end |-> "field"]
                    ELSE csv_parse_field(t, i + 1, "in_field", Append(cell, c))
               [] mode = "in_quoted" ->
                    IF c = "\"" THEN csv_parse_field(t, i + 1, "quote_in_quoted", cell)
                    ELSE csv_parse_field(t, i + 1, "in_quoted", Append(cell, c))
               [] OTHER ->   \* a '"' was read inside a quoted field
                    IF c = "\"" THEN csv_parse_field(t, i + 1, "in_quoted", Append(cell, c))
                    ELSE IF c \in CsvEol THEN [cell |-> cell, next |-> i + 1, end |-> "record"]
                    ELSE IF c = "," THEN [cell |-> cell, next |-> i + 1, end |-> "field"]
                    ELSE csv_parse_field(t, i + 1, "in_field", Append(cell, c))

\* one record from piece i on, after the fields rec already read
RECURSIVE csv_parse_record(_, _, _)
csv_parse_record(t, i, rec) ==
    LET f == csv_parse_field(t, i, "start_field", << >>)
    IN  IF f.end = "field" THEN csv_parse_record(t, f.next, Append(rec, f.cell))
        ELSE [rec |-> Append(rec, f.cell), next |-> f.next]

\* the records from piece i on, after rows; an empty line is an empty record
RECURSIVE csv_parse(_, _, _)
csv_parse(t, i, rows) ==
    IF i > Len(t) THEN rows
    ELSE IF t[i] \in CsvEol THEN csv_parse(t, i + 1, Append(rows, << >>))
    ELSE LET r == csv_parse_record(t, i, << >>)
         IN  csv_parse(t, r.next, Append(rows, r.rec))

csv_reader(t) == csv_parse(t, 1, << >>)

\* csv.DictReader: the record paired with the field names of the header
csv_dict(header, data) == [i \in 1..Len(header) |-> <<header[i], data[i]>>]

\* append_row (lines 45-51) on the text of the files
append_row_csv(fs, path, r) ==
    LET new_file == path \notin DOMAIN fs
    IN  IF new_file
        THEN (path :> (csv_writerow(Keys(r)) \o csv_writerow(Values(r)))) @@ fs
        ELSE [fs EXCEPT ![path] = @ \o csv_writerow(Values(r))]

(***************************************************************************)
(* azure_upload (lines 176-205): [raised, ok, msg, blobs].  net is whether *)
(* the storage calls of lines 190-201 go through.                          *)
(***************************************************************************)
Returned(ok, msg, store) == [raised |-> FALSE, ok |-> ok, msg |-> msg, blobs |-> store]

NameError(store) == [raised |-> TRUE, ok |-> FALSE, msg |-> << >>, blobs |-> store]

azure_upload(env, local_file, fs, store, net) ==
    LET container == Strip(Getenv(env, "AZURE_CONTAINER", << >>))
        conn_str  == Strip(Getenv(env, "AZURE_STORAGE_CONNECTION_STRING", << >>))
        sas       == Strip(Getenv(env, "AZURE_STORAGE_SAS_TOKEN", << >>))
        blob_name == PathName(local_file)
    IN  IF container = << >> THEN Returned(FALSE, <<"AZURE_CONTAINER not set">>, store)
        \* line 186 evaluates AZURE_ACCOUNT_DEFAULT, outside the try
        ELSE IF "AZURE_ACCOUNT_DEFAULT" \notin ModuleGlobals THEN NameError(store)
        ELSE IF conn_str = << >> /\ sas = << >>
             THEN Returned(FALSE,
                      <<"No AZURE_STORAGE_CONNECTION_STRING or AZURE_STORAGE_SAS_TOKEN set">>,
                      store)
        ELSE IF net /\ local_file \in DOMAIN fs
             THEN Returned(TRUE,
                      <<"Uploaded to container '">> \o container \o <<"' as '">>
                          \o blob_name \o <<"'">>,
                      (blob_name :> fs[local_file]) @@ store)
        ELSE Returned(FALSE, <<"Azure upload failed: ">>, store)

(***************************************************************************)
(* main (lines 247-287)                                                    *)
(***************************************************************************)
\* results.get(name, {}).get("iface_ok") == 1
IfaceOkIn(res, name) == \E i \in 1..Len(res) : res[i][1] = name /\ res[i][2].iface_ok = Str(1)

\* results[name]
Lookup(res, name) == res[CHOOSE i \in 1..Len(res) : res[i][1] = name][2]

\* all() where the code has any()
overall_of_All(ifaces, res) == \A i \in 1..Len(ifaces) : Lookup(res, ifaces[i]).iface_ok = Str(1)

\* line 255
overall_of(ifaces, res) == \E i \in 1..Len(ifaces) : Lookup(res, ifaces[i]).iface_ok = Str(1)

\* lines 258-260
preferred_of(res) ==
    IF IfaceOkIn(res, <<"eth0">>) THEN <<"eth0">>
    ELSE IF IfaceOkIn(res, <<"wlan0">>) THEN <<"wlan0">> ELSE << >>

\* lines 269-272: the columns of one interface
iface_columns(name, r) ==
    [k \in 1..Len(ResultKeys) |-> <<name \o <<"_">> \o <<ResultKeys[k]>>, r[ResultKeys[k]]>>]

RECURSIVE iface_columns_all(_, _)
iface_columns_all(ifaces, res) ==
    IF ifaces = << >> THEN << >>
    ELSE iface_columns(Head(ifaces), Lookup(res, Head(ifaces)))
             \o iface_columns_all(Tail(ifaces), res)

\* lines 263-272
row_of(stamp, ok, pref, ifaces, res) ==
    << << <<"timestamp">>, stamp >>,
       << <<"overall_ok">>, BoolStr(ok) >>,
       << <<"preferred_iface">>, pref >> >> \o iface_columns_all(ifaces, res)

\* line 283
audit_line(stamp, path, ok, pref, r) ==
    stamp \o <<" | ">> \o PathName(path) \o <<" | overall_ok=">> \o PyBool(ok)
        \o <<" | preferred=">> \o pref \o <<" | ">> \o PyBool(r.ok) \o <<" | ">> \o r.msg

\* what the commands come back with in the ticks main() is followed through:
\* the link down, or the link up and every later stage good (SpecIface goes
\* through all of Worlds)
TickWorlds ==
    { [link |-> LinkDown, addr |-> Raised, route |-> Raised,
       ping |-> Raised, head |-> Raised, get |-> Raised],
      [link |-> LinkUp, addr |-> AddrGood, route |-> RouteGood,
       ping |-> PingGood, head |-> Head200, get |-> GetGood] }

NoCall == [iface |-> << >>, world |-> << >>]

Hist0(log) == [appends |-> 0, uploads |-> 0, audits |-> 0, audit_raised |-> FALSE,
               log0 |-> Len(log), up_path |-> << >>]

Init ==
    /\ IFACES \in IfaceConfigs
    /\ environ \in Environs
    /\ pc = "start"
    /\ tick = 1
    /\ today = 1
    /\ log_dir = << >>
    /\ ts = << >>
    /\ results = << >>
    /\ overall_ok = FALSE
    /\ preferred = << >>
    /\ row = << >>
    /\ csv_path = << >>
    /\ files = << >>
    /\ upload_log = << >>
    /\ blobs = << >>
    /\ up_ret = << >>
    /\ hist = Hist0(<< >>)
    /\ calls = << >>
    /\ arg = NoCall
    /\ ret = << >>
    /\ disk = << >>

\* line 248
EnsureLogDir ==
    /\ pc = "start"
    /\ \E denied \in BOOLEAN : log_dir' = ensure_log_dir(denied)
    /\ pc' = "stamp"
    /\ UNCHANGED <<IFACES, environ, tick, today, ts, results, overall_ok, preferred,
                   row, csv_path, files, upload_log, blobs, up_ret, hist, calls, arg, ret, disk>>

\* line 251, and the start of the comprehension of line 252
Stamp ==
    /\ pc = "stamp"
    /\ ts' = now_iso(today, tick)
    /\ results' = << >>
    /\ pc' = "check"
    /\ UNCHANGED <<IFACES, environ, tick, today, log_dir, overall_ok, preferred,
                   row, csv_path, files, upload_log, blobs, up_ret, hist, calls, arg, ret, disk>>

\* line 252: check_iface for the next interface of IFACES
\* check_iface on the interfaces and worlds of the ticks, evaluated once
ConfiguredNames == UNION { {c[i] : i \in 1..Len(c)} : c \in IfaceConfigs }

check_iface_in == [n \in ConfiguredNames, w \in TickWorlds |-> check_iface(n, w)]

CheckIface ==
    /\ pc = "check"
    /\ Len(results) < Len(IFACES)
    /\ \E w \in TickWorlds :
          results' = Append(results, <<IFACES[Len(results) + 1],
                                       check_iface_in[IFACES[Len(results) + 1], w]>>)
    /\ UNCHANGED <<IFACES, environ, pc, tick, today, log_dir, ts, overall_ok, preferred,
                   row, csv_path, files, upload_log, blobs, up_ret, hist, calls, arg, ret, disk>>

\* lines 255-275
Aggregate ==
    /\ pc = "check"
    /\ Len(results) = Len(IFACES)
    /\ overall_ok' = overall_of(IFACES, results)
    /\ preferred' = preferred_of(results)
    /\ row' = row_of(ts, overall_ok', preferred', IFACES, results)
    /\ csv_path' = log_path_for_today(log_dir, today)
    /\ pc' = "append"
    /\ UNCHANGED <<IFACES, environ, tick, today, log_dir, ts, results,
                   files, upload_log, blobs, up_ret, hist, calls, arg, ret, disk>>

\* line 279: where main() goes after the append
after_append_Always(ok) == "upload"

\* an unhealthy tick goes straight to the next one
after_append_NoSleep(ok) == IF ok THEN "upload" ELSE "stamp"

after_append(ok) == IF ok THEN "upload" ELSE "sleep"

\* the row written in healthy ticks only
AppendRow_OnlyIfHealthy ==
    /\ pc = "append"
    /\ files' = IF overall_ok THEN append_row(files, csv_path, row) ELSE files
    /\ hist' = [hist EXCEPT !.appends = IF overall_ok THEN @ + 1 ELSE @]
    /\ calls' = IF overall_ok THEN Append(calls, csv_path) ELSE calls
    /\ pc' = after_append(overall_ok)
    /\ UNCHANGED <<IFACES, environ, tick, today, log_dir, ts, results, overall_ok,
                   preferred, row, csv_path, upload_log, blobs, up_ret, arg, ret, disk>>

\* lines 276 and 279
AppendRow ==
    /\ pc = "append"
    /\ files' = append_row(files, csv_path, row)
    /\ hist' = [hist EXCEPT !.appends = @ + 1]
    /\ calls' = Append(calls, csv_path)
    /\ pc' = after_append(overall_ok)
    /\ UNCHANGED <<IFACES, environ, tick, today, log_dir, ts, results, overall_ok,
                   preferred, row, csv_path, upload_log, blobs, up_ret, arg, ret, disk>>

\* line 280
\* the path handed to the upload worked out again, from LOG_DIR
AzureUpload_PathAgain ==
    /\ pc = "upload"
    /\ \E net \in BOOLEAN :
          LET path == log_path_for_today(ensure_log_dir(FALSE), today)
              r    == azure_upload(environ, path, files, blobs, net)
          IN  /\ pc' = IF r.raised THEN "crashed" ELSE "audit"
              /\ up_ret' = IF r.raised THEN << >> ELSE <<[ok |-> r.ok, msg |-> r.msg]>>
              /\ blobs' = r.blobs
              /\ hist' = [hist EXCEPT !.uploads = @ + 1, !.up_path = <<path>>]
    /\ UNCHANGED <<IFACES, environ, tick, today, log_dir, ts, results, overall_ok,
                   preferred, row, csv_path, files, upload_log, calls, arg, ret, disk>>

AzureUpload ==
    /\ pc = "upload"
    /\ \E net \in BOOLEAN :
          LET r == azure_upload(environ, csv_path, files, blobs, net)
          IN  /\ pc' = IF r.raised THEN "crashed" ELSE "audit"
              /\ up_ret' = IF r.raised THEN << >> ELSE <<[ok |-> r.ok, msg |-> r.msg]>>
              /\ blobs' = r.blobs
    /\ hist' = [hist EXCEPT !.uploads = @ + 1, !.up_path = <<csv_path>>]
    /\ UNCHANGED <<IFACES, environ, tick, today, log_dir, ts, results, overall_ok,
                   preferred, row, csv_path, files, upload_log, calls, arg, ret, disk>>

\* lines 281-285
AuditWrite ==
    /\ pc = "audit"
    /\ \E io_ok \in BOOLEAN :
          /\ upload_log' = IF io_ok
                           THEN Append(upload_log,
                                       audit_line(ts, csv_path, overall_ok, preferred, up_ret[1]))
                           ELSE upload_log
          /\ hist' = [hist EXCEPT !.audits = IF io_ok THEN @ + 1 ELSE @,
                                  !.audit_raised = ~io_ok]
    /\ pc' = "sleep"
    /\ UNCHANGED <<IFACES, environ, tick, today, log_dir, ts, results, overall_ok,
                   preferred, row, csv_path, files, blobs, up_ret, calls, arg, ret, disk>>

\* line 287, and back to line 250
Sleep ==
    /\ pc = "sleep"
    /\ tick < MaxTicks
    /\ tick' = tick + 1
    /\ up_ret' = << >>
    /\ hist' = Hist0(upload_log)
    /\ pc' = "stamp"
    /\ UNCHANGED <<IFACES, environ, today, log_dir, ts, results, overall_ok, preferred,
                   row, csv_path, files, upload_log, blobs, calls, arg, ret, disk>>

\* the system clock passes midnight.  The date is read at lines 251 and 274
\* only: a midnight falls between the two reads of a tick (taken here when the
\* checks are done), or between line 274 and line 251 of the next tick (taken
\* here during the sleep)
Midnight ==
    /\ \/ pc = "check" /\ Len(results) = Len(IFACES)
       \/ pc = "sleep"
    /\ today < MaxDay
    /\ today' = today + 1
    /\ UNCHANGED <<IFACES, environ, pc, tick, log_dir, ts, results, overall_ok, preferred,
                   row, csv_path, files, upload_log, blobs, up_ret, hist, calls, arg, ret, disk>>

Next ==
    \/ EnsureLogDir
    \/ Stamp
    \/ CheckIface
    \/ Aggregate
    \/ AppendRow
    \/ AzureUpload
    \/ AuditWrite
    \/ Sleep
    \/ Midnight

Spec == Init /\ [][Next]_vars

\* the steps of main() itself: the process keeps running while it has a step
\* to take (the clock owes nothing)
MainStep ==
    \/ EnsureLogDir
    \/ Stamp
    \/ CheckIface
    \/ Aggregate
    \/ AppendRow
    \/ AzureUpload
    \/ AuditWrite
    \/ Sleep

SpecFair == Spec /\ WF_vars(MainStep)

(***************************************************************************)
(* check_iface as a function of what the commands come back with           *)
(***************************************************************************)
InitIface ==
    /\ IFACES = << <<"eth0">>, <<"wlan0">> >>
    /\ environ = << >>
    /\ pc = "call"
    /\ tick = 1
    /\ today = 1
    /\ log_dir = << >>
    /\ ts = << >>
    /\ results = << >>
    /\ overall_ok = FALSE
    /\ preferred = << >>
    /\ row = << >>
    /\ csv_path = << >>
    /\ files = << >>
    /\ upload_log = << >>
    /\ blobs = << >>
    /\ up_ret = << >>
    /\ hist = Hist0(<< >>)
    /\ calls = << >>
    /\ arg \in [iface : IfaceNames, world : Worlds]
    /\ ret = << >>
    /\ disk = << >>

CallCheckIface ==
    /\ pc = "call"
    /\ ret = << >>
    /\ ret' = <<check_iface(arg.iface, arg.world), check_stages(arg.iface, arg.world).ran>>
    /\ UNCHANGED <<mainvars, arg, disk>>

SpecIface == InitIface /\ [][CallCheckIface]_vars

(***************************************************************************)
(* append_row on its own (lines 45-51): the rows main() builds (lines      *)
(* 252-272) from what check_iface returns are appended to the file of the  *)
(* day, kept both as text (disk) and as rows (files).                      *)
(***************************************************************************)
MaxRows == 2    \* calls of append_row followed

CsvDays == {1, 2}

CsvWorlds ==
    { [link |-> LinkDown, addr |-> Raised, route |-> Raised, ping |-> Raised,
       head |-> Raised, get |-> Raised],
      [link |-> LinkUp, addr |-> AddrGood, route |-> RouteGood, ping |-> PingGood,
       head |-> Head200, get |-> GetPage] }

InitCsv ==
    /\ IFACES \in IfaceConfigs
    /\ environ = << >>
    /\ pc = "csv"
    /\ tick = 1
    /\ today = 1
    /\ log_dir = ensure_log_dir(FALSE)
    /\ ts = << >>
    /\ results = << >>
    /\ overall_ok = FALSE
    /\ preferred = << >>
    /\ row = << >>
    /\ csv_path = << >>
    /\ files = << >>
    /\ upload_log = << >>
    /\ blobs = << >>
    /\ up_ret = << >>
    /\ hist = Hist0(<< >>)
    /\ calls = << >>
    /\ arg = NoCall
    /\ ret = << >>
    /\ disk = << >>

CallAppendRow ==
    /\ pc = "csv"
    /\ Len(calls) < MaxRows
    /\ \E d \in CsvDays, ws \in [1..Len(IFACES) -> CsvWorlds] :
          LET res  == [i \in 1..Len(IFACES) |-> <<IFACES[i], check_iface(IFACES[i], ws[i])>>]
              r    == row_of(now_iso(d, Len(calls) + 1), overall_of(IFACES, res),
                             preferred_of(res), IFACES, res)
              path == log_path_for_today(log_dir, d)
          IN  /\ files' = append_row(files, path, r)
              /\ disk' = append_row_csv(disk, path, r)
              /\ calls' = Append(calls, path)
              /\ ret' = Append(ret, r)
    /\ UNCHANGED <<IFACES, environ, pc, tick, today, log_dir, ts, results, overall_ok,
                   preferred, row, csv_path, upload_log, blobs, up_ret, hist, arg>>

SpecCsv == InitCsv /\ [][CallAppendRow]_vars

(***************************************************************************)
(* Properties                                                              *)
(***************************************************************************)
\* main() is past line 272 of the current tick: overall_ok, preferred, row set
Aggregated == pc \in {"append", "upload", "audit", "sleep", "crashed"}

\* main() is past line 276 of the current tick
Appended == pc \in {"upload", "audit", "sleep", "crashed"}

\* the value of column key in a data row, by the header of its file
Field(header, data, key) == data[CHOOSE i \in 1..Len(header) : header[i] = key]

IsHeader(r) == r[1] = <<"timestamp">>

\* the data rows of the file at path; none if there is no such file
DataRows(fs, path) ==
    IF path \in DOMAIN fs
    THEN Cardinality({k \in 1..Len(fs[path]) : ~IsHeader(fs[path][k])})
    ELSE 0

IsPrefix(a, b) == Len(a) <= Len(b) /\ SubSeq(b, 1, Len(a)) = a

\* C1: in every result of check_iface the staged-dependency chain holds:
\* up=false implies ipv4, gateway and publicIp empty and localOk, remoteOk
\* false; gateway non-empty implies ipv4 non-empty; localOk true or a gateway
\* rtt present implies gateway non-empty; remoteOk true, a status present or a
\* latency present implies localOk true; publicIp non-empty implies remoteOk.
C1_StagedDependency ==
    ret # << >> =>
        LET r == ret[1]
        IN  /\ r.iface_up = Str(0) =>
                  /\ r.iface_ipv4 = << >>
                  /\ r.gateway = << >>
                  /\ r.local_ok = Str(0)
                  /\ r.nos_ok = Str(0)
                  /\ r.public_ip = << >>
            /\ r.gateway # << >> => r.iface_ipv4 # << >>
            /\ r.iface_ipv4 # << >> => r.iface_up = Str(1)
            /\ (r.local_ok = Str(1) \/ r.gateway_rtt_ms # << >>) => r.gateway # << >>
            /\ (r.nos_ok = Str(1) \/ r.nos_status # << >> \/ r.nos_response_ms # << >>)
                  => r.local_ok = Str(1)
            /\ r.public_ip # << >> => r.nos_ok = Str(1)

\* the link is down while every later command would have answered well
C1_Witness ==
    /\ ret # << >>
    /\ ret[1].iface_up = Str(0)
    /\ arg.world.addr = AddrGood
    /\ arg.world.route = RouteGood
    /\ arg.world.ping = PingGood
    /\ arg.world.head = Head200
    /\ arg.world.get = GetGood

\* C2: in every result of check_iface, iface_ok is 1 exactly when local_ok and
\* nos_ok are both 1 (and is 0 otherwise), whatever public_ip and the gateway
\* rtt are.
C2_HealthyIsLocalAndRemote ==
    ret # << >> =>
        LET r == ret[1]
        IN  /\ r.iface_ok \in {Str(0), Str(1)}
            /\ r.iface_ok = Str(1) <=> (r.local_ok = Str(1) /\ r.nos_ok = Str(1))

\* healthy with an empty public IP and an unparsed ping latency
C2_Witness ==
    /\ ret # << >>
    /\ ret[1].iface_ok = Str(1)
    /\ ret[1].public_ip = << >>
    /\ ret[1].gateway_rtt_ms = << >>

\* C3: the overall_ok written to the row of a tick is 1 iff the iface_ok column
\* of at least one configured interface is 1 in that row, and is 0 otherwise.
C3_OverallIsOr ==
    Appended =>
        LET f      == files[csv_path]
            header == f[1]
            data   == f[Len(f)]
            any    == \E i \in 1..Len(IFACES) :
                          Field(header, data, IFACES[i] \o <<"_">> \o <<"iface_ok">>) = Str(1)
        IN  /\ data = Values(row)
            /\ Field(header, data, <<"overall_ok">>) = BoolStr(any)
            /\ overall_ok = any

\* a tick with one interface healthy and another not
C3_Witness ==
    /\ Appended
    /\ overall_ok
    /\ \E i \in 1..Len(results) : results[i][2].iface_ok = Str(0)

\* the first interface of ifaces, in order, whose iface_ok is 1; "" if none
FirstHealthy(ifaces, res) ==
    IF \E i \in 1..Len(ifaces) : Lookup(res, ifaces[i]).iface_ok = Str(1)
    THEN ifaces[CHOOSE i \in 1..Len(ifaces) :
                   /\ Lookup(res, ifaces[i]).iface_ok = Str(1)
                   /\ \A j \in 1..(i - 1) : Lookup(res, ifaces[j]).iface_ok # Str(1)]
    ELSE << >>

\* C4: in every tick, for any configured list, preferred is the first interface
\* in configured order whose iface_ok is 1, and "" if there is none.
C4_PreferredIsFirstHealthy ==
    Aggregated => preferred = FirstHealthy(IFACES, results)

\* C5: in a tick whose overall_ok is false, azure_upload is not called and no
\* line is appended to the upload audit log.
C5_NoUploadUnlessHealthy ==
    /\ (Aggregated /\ ~overall_ok) =>
           /\ hist.uploads = 0
           /\ hist.audits = 0
           /\ up_ret = << >>
           /\ Len(upload_log) = hist.log0
           /\ pc \notin {"upload", "audit"}
    /\ (hist.uploads > 0 \/ Len(upload_log) > hist.log0) => (Aggregated /\ overall_ok)

\* an unhealthy tick after a tick that uploaded
C5_Witness ==
    /\ pc = "sleep"
    /\ ~overall_ok
    /\ hist.appends = 1
    /\ Len(upload_log) > 0

\* the number of append_row calls made with path
CallsFor(path) == Cardinality({k \in 1..Len(calls) : calls[k] = path})

\* C6: every daily file is one header row followed by one data row per
\* append_row call made for it; the header is never written a second time.
C6_OneHeaderPerFile ==
    /\ DOMAIN files = {calls[k] : k \in 1..Len(calls)}
    /\ \A path \in DOMAIN files :
          LET f == files[path]
          IN  /\ Len(f) = 1 + CallsFor(path)
              /\ IsHeader(f[1])
              /\ \A k \in 2..Len(f) : ~IsHeader(f[k]) /\ Len(f[k]) = Len(f[1])

\* two appends went to the file of one date
C6_Witness == \E path \in DOMAIN files : Len(files[path]) >= 3 /\ CallsFor(path) >= 2

\* C7: append_row is append-only: a call adds exactly one data row, as the last
\* row of the target file; what the file held before is a prefix of what it
\* holds after; the files of all other dates are unchanged.  No other step
\* changes any log file.
C7_AppendOnly ==
    [][ /\ \A path \in DOMAIN files :
              path \in DOMAIN files' /\ IsPrefix(files[path], files'[path])
        /\ pc = "append" =>
              /\ DOMAIN files' = DOMAIN files \cup {csv_path}
              /\ \A path \in DOMAIN files : path # csv_path => files'[path] = files[path]
              /\ DataRows(files', csv_path) = DataRows(files, csv_path) + 1
              /\ files'[csv_path][Len(files'[csv_path])] = Values(row)
        /\ pc # "append" => files' = files ]_vars

\* a row has gone to a new date's file while an earlier date's file exists
C7_Witness ==
    /\ Appended
    /\ Cardinality(DOMAIN files) >= 2
    /\ Len(files[csv_path]) = 2

\* C8: every tick appends exactly one row to the daily log, before the upload
\* of the tick is attempted, and no outcome of the upload (a return or an
\* exception) takes the row away.
C8_RowAlwaysPersisted ==
    /\ Appended =>
          /\ hist.appends = 1
          /\ csv_path \in DOMAIN files
          /\ files[csv_path][Len(files[csv_path])] = Values(row)
          /\ Len(calls) = tick
    /\ ~Appended => hist.appends = 0 /\ hist.uploads = 0 /\ Len(calls) = tick - 1
    /\ hist.uploads > 0 => hist.appends = 1

\* the upload of the second tick raised, with both rows in the log
C8_Witness ==
    /\ pc = "crashed"
    /\ hist.uploads = 1
    /\ Len(calls) = 2

\* C9: azure_upload called with a container configured and neither a connection
\* string nor a SAS token (or with no container) returns (False, message) and
\* does not raise; the tick goes on to the audit-log write and the sleep.
C9_ConfigErrorNonFatal ==
    LET container == Strip(Getenv(environ, "AZURE_CONTAINER", << >>))
        conn_str  == Strip(Getenv(environ, "AZURE_STORAGE_CONNECTION_STRING", << >>))
        sas       == Strip(Getenv(environ, "AZURE_STORAGE_SAS_TOKEN", << >>))
    IN  (hist.uploads > 0 /\ (container = << >> \/ (conn_str = << >> /\ sas = << >>))) =>
            /\ pc \in {"audit", "sleep"}
            /\ up_ret # << >>
            /\ up_ret[1].ok = FALSE
            /\ up_ret[1].msg # << >>

\* C10: every call of azure_upload is followed, in the same tick, by exactly one
\* line appended to the upload audit log, unless the audit-log write failed.
C10_EveryAttemptAudited ==
    (hist.uploads > 0 /\ pc \in {"sleep", "crashed"} /\ ~hist.audit_raised) =>
        Len(upload_log) = hist.log0 + 1

\* C11: ticks never overlap.  Within a tick main() goes through its steps in
\* the order: timestamp, one check_iface per interface in configured order,
\* aggregation, append, upload (healthy ticks only), audit line, sleep; the
\* next tick begins only from the sleep of the tick before, and a new tick's
\* timestamp is taken only once the tick counter has moved on.
C11_TicksInOrder ==
    [][ /\ pc' # pc =>
              <<pc, pc'>> \in { <<"start", "stamp">>, <<"stamp", "check">>,
                                <<"check", "append">>, <<"append", "upload">>,
                                <<"append", "sleep">>, <<"upload", "audit">>,
                                <<"upload", "crashed">>, <<"audit", "sleep">>,
                                <<"sleep", "stamp">> }
        /\ <<pc, pc'>> = <<"append", "sleep">> => ~overall_ok
        /\ <<pc, pc'>> = <<"append", "upload">> => overall_ok
        /\ tick' # tick => (pc = "sleep" /\ pc' = "stamp" /\ tick' = tick + 1)
        /\ <<pc, pc'>> = <<"sleep", "stamp">> => tick' = tick + 1
        /\ results' # results =>
              \/ pc = "stamp" /\ results' = << >>
              \/ /\ pc = "check" /\ pc' = "check"
                 /\ Len(results') = Len(results) + 1
                 /\ SubSeq(results', 1, Len(results)) = results
                 /\ results'[Len(results')][1] = IFACES[Len(results')]
        /\ <<pc, pc'>> = <<"check", "append">> =>
              /\ Len(results) = Len(IFACES)
              /\ \A i \in 1..Len(IFACES) : results[i][1] = IFACES[i]
        /\ files' # files => (pc = "append" /\ hist.appends = 0)
        /\ upload_log' # upload_log => (pc = "audit" /\ hist.uploads = 1)
      ]_vars

\* the second tick has begun after a first tick that uploaded and slept
C11_Witness ==
    /\ tick = 2
    /\ pc = "check"
    /\ Len(results) = 1
    /\ Len(upload_log) = 1

(***************************************************************************)
(* C12: reading a log file back with a csv reader and pairing every data   *)
(* record with the header gives, in order, exactly the records append_row  *)
(* was called with for that file, whatever the cells hold (commas, quotes, *)
(* line breaks, nothing); the rows the reader gets are the rows `files`    *)
(* keeps for that file.                                                    *)
(***************************************************************************)
\* the records append_row was called with for path, in call order
RECURSIVE RecordsFor(_, _, _)
RecordsFor(paths, recs, path) ==
    IF paths = << >> THEN << >>
    ELSE (IF paths[1] = path THEN <<recs[1]>> ELSE << >>)
         \o RecordsFor(Tail(paths), Tail(recs), path)

C12_CsvRoundTrip ==
    pc = "csv" =>
        /\ DOMAIN disk = DOMAIN files
        /\ \A path \in DOMAIN disk :
              LET rows == csv_reader(disk[path])
                  recs == RecordsFor(calls, ret, path)
              IN  /\ rows = files[path]
                  /\ Len(rows) = Len(recs) + 1
                  /\ \A k \in 1..Len(recs) :
                        /\ Len(rows[k + 1]) = Len(rows[1])
                        /\ csv_dict(rows[1], rows[k + 1]) = recs[k]

\* a file holding two records, the later one with a page for a public address
C12_Witness ==
    /\ pc = "csv"
    /\ \E path \in DOMAIN disk :
          /\ Len(RecordsFor(calls, ret, path)) = 2
          /\ \E i \in 1..Len(ret[2]) :
                \E j \in 1..Len(ret[2][i][2]) : ret[2][i][2][j] = "\""

(***************************************************************************)
(* C13: one evaluation of check_iface runs its commands in the order link, *)
(* address, route, ping, HTTP probe, public-IP lookup, each at most once,  *)
(* and a command is run only if the one before it succeeded: address only  *)
(* if up, route only if an address was found, ping only if a gateway was   *)
(* found, the HTTP probe only if the ping was ok, the lookup only if the   *)
(* probe was ok.  After a failed ping neither probe nor lookup is run.     *)
(***************************************************************************)
Ran(stage) == \E i \in 1..Len(ret[2]) : ret[2][i] = stage

C13_StagesInOrderOnce ==
    ret # << >> =>
        LET r == ret[1]
        IN  /\ IsPrefix(ret[2], Stages)
            /\ Ran("link")
            /\ Ran("addr") <=> r.iface_up = Str(1)
            /\ Ran("route") <=> r.iface_ipv4 # << >>
            /\ Ran("ping") <=> r.gateway # << >>
            /\ Ran("head") <=> r.local_ok = Str(1)
            /\ Ran("get") <=> r.nos_ok = Str(1)
            /\ (Ran("ping") /\ r.local_ok = Str(0)) => ret[2] = SubSeq(Stages, 1, 4)

\* the ping is run and fails while probe and lookup would have answered well
C13_Witness ==
    /\ ret # << >>
    /\ ret[2] = SubSeq(Stages, 1, 4)
    /\ ret[1].local_ok = Str(0)
    /\ arg.world.head = Head200
    /\ arg.world.get = GetGood

(***************************************************************************)
(* What curl gave the HTTP probe of the call under evaluation: an answer   *)
(* is well formed when curl exited with 0 and wrote a status code and a    *)
(* time, two tokens that int() and float() accept.                         *)
(***************************************************************************)
HeadWellFormed ==
    LET p == arg.world.head
    IN  /\ ~p.exc
        /\ p.returncode = 0
        /\ Len(Flatten(p.stdout)) = 2
        /\ AllDigits(Flatten(p.stdout)[1])
        /\ ParseFloat(Flatten(p.stdout)[2]).ok

HeadCode == DigitsVal(Flatten(arg.world.head.stdout)[1])

\* C14 as stated: in every result of check_iface, nos_ok = 0 implies that
\* nos_status and nos_response_ms are both empty, and local_ok = 0 implies
\* that gateway_rtt_ms is empty.
C14_FailedProbeCarriesNothing ==
    ret # << >> =>
        LET r == ret[1]
        IN  /\ r.nos_ok = Str(0) => (r.nos_status = << >> /\ r.nos_response_ms = << >>)
            /\ r.local_ok = Str(0) => r.gateway_rtt_ms = << >>

\* C14 amended: local_ok = 0 implies gateway_rtt_ms empty.  nos_ok = 0 implies
\* nos_status and nos_response_ms empty when the probe was not run or curl
\* failed, timed out or wrote a malformed answer; when curl gave a well-formed
\* answer whose status code is outside [200,600), nos_ok is 0 and status and
\* latency are both recorded.
C14_FailedProbeAmended ==
    ret # << >> =>
        LET r == ret[1]
        IN  /\ r.local_ok = Str(0) => r.gateway_rtt_ms = << >>
            /\ (r.nos_ok = Str(0) /\ ~(Ran("head") /\ HeadWellFormed))
                  => (r.nos_status = << >> /\ r.nos_response_ms = << >>)
            /\ (r.nos_ok = Str(0) /\ Ran("head") /\ HeadWellFormed)
                  => /\ ~(200 <= HeadCode /\ HeadCode < 600)
                     /\ r.nos_status = Str(HeadCode)
                     /\ r.nos_response_ms # << >>

\* the probe answered 101: not ok, status and latency recorded
C14_Witness ==
    /\ ret # << >>
    /\ ret[1].nos_ok = Str(0)
    /\ ret[1].nos_status = <<"1", "0", "1">>
    /\ ret[1].nos_response_ms # << >>

\* C15: when the HTTP probe is run, nos_ok is 1 exactly when curl exited with
\* 0, wrote a well-formed status code and time, and the code lies in
\* [200,600), 4xx and 5xx included; a raised exception (timeout), a non-zero
\* exit or a malformed output gives nos_ok 0.
C15_HttpOkIffAnswered ==
    (ret # << >> /\ Ran("head")) =>
        /\ ret[1].nos_ok = Str(1) <=> (HeadWellFormed /\ 200 <= HeadCode /\ HeadCode < 600)
        /\ ret[1].nos_ok \in {Str(0), Str(1)}

\* the probe answered 404 and counts as reachable
C15_Witness ==
    /\ ret # << >>
    /\ Ran("head")
    /\ ret[1].nos_ok = Str(1)
    /\ ret[1].nos_status = <<"4", "0", "4">>

(***************************************************************************)
(* C16: check_iface is total.  Whatever the link, address, route, ping,    *)
(* HTTP and public-IP commands do (answer, exit with a non-zero status,    *)
(* time out or raise), the call returns (the pending one as well as the    *)
(* one made), and what it returns is a result with all ten fields, each a  *)
(* text.                                                                   *)
(***************************************************************************)
C16_CheckIfaceTotal ==
    LET r == IF ret = << >> THEN check_iface(arg.iface, arg.world) ELSE ret[1]
    IN  /\ DOMAIN r = {ResultKeys[i] : i \in 1..Len(ResultKeys)}
        /\ Len(ResultKeys) = 10
        /\ \A k \in DOMAIN r : r[k] \in Seq(STRING)

\* every command raised, and the result is there
C16_Witness ==
    /\ ret # << >>
    /\ \A c \in DOMAIN arg.world : arg.world[c] = Raised
    /\ ret[1].iface_up = Str(0)
    /\ ret[1].iface_ok = Str(0)

(***************************************************************************)
(* C17: the loop of main() goes on: under fairness every tick that begins  *)
(* (within the ticks followed) is followed by the beginning of the next    *)
(* one, whatever the probes, the upload and the audit write do.            *)
(***************************************************************************)
C17_EveryTickFollowed ==
    \A k \in 1..(MaxTicks - 1) : (tick = k /\ pc = "stamp") ~> (tick = k + 1)

(***************************************************************************)
(* C18: every data row of the file netmon_<D>.csv has a timestamp whose    *)
(* date part is D, also for a tick whose checks run across midnight.       *)
(***************************************************************************)
\* the D of netmon_<D>.csv
FileDate(path) == LET name == PathName(path) IN SubSeq(name, 2, Len(name) - 1)

C18_RowInFileOfItsDate ==
    \A path \in DOMAIN files :
        \A k \in 2..Len(files[path]) :
            BeforeFirst(Field(files[path][1], files[path][k], <<"timestamp">>), "T")
                = FileDate(path)

(***************************************************************************)
(* C19: the path handed to azure_upload in a tick is the path append_row   *)
(* was called with in that tick; when the upload is called the file at     *)
(* that path exists and ends with the row of the tick; and the upload is   *)
(* called at most once in a tick.                                          *)
(***************************************************************************)
C19_UploadsTheFileJustAppended ==
    /\ hist.uploads <= 1
    /\ hist.uploads = 0 => hist.up_path = << >>
    /\ hist.uploads = 1 =>
          /\ hist.appends = 1
          /\ Len(calls) = tick
          /\ hist.up_path = <<calls[tick]>>
          /\ calls[tick] \in DOMAIN files
          /\ files[calls[tick]][Len(files[calls[tick]])] = Values(row)
          /\ Values(row)[1] = ts

\* the second tick uploads from the fallback directory, after a midnight
C19_Witness ==
    /\ hist.uploads = 1
    /\ tick = 2
    /\ log_dir = ensure_log_dir(TRUE)
    /\ calls[1] # calls[2]

(***************************************************************************)
(* C20: in every tick and for any configured interface list, preferred is  *)
(* non-empty exactly when overall_ok is true, and a non-empty preferred    *)
(* names a configured interface whose iface_ok is 1 in that tick.          *)
(***************************************************************************)
C20_PreferredIffOverallHealthy ==
    Aggregated =>
        /\ preferred # << >> <=> overall_ok
        /\ preferred # << >> =>
              \E i \in 1..Len(IFACES) :
                  /\ IFACES[i] = preferred
                  /\ results[i][2].iface_ok = Str(1)

====
